---- MODULE Spec2Model ----
(***************************************************************************)
(* graphql-ws connection initialisation                                    *)
(* (v3/crates/graphql/graphql-ws/src/protocol/init.rs).                    *)
(*                                                                         *)
(* One connection, several handle_connection_init tasks running on it.     *)
(* Each task takes the write guard of connection.protocol_init_state,      *)
(* runs initialize (parse_headers, HeaderMap::extend, authenticate,        *)
(* authorize_identity), commits the result and sends one message.          *)
(***************************************************************************)
EXTENDS Integers, Sequences, FiniteSets, TLC

VARIABLES
    handshake,   \* connection.context.handshake_headers (client_headers)
    state,       \* the value inside connection.protocol_init_state
    task,        \* per handle_connection_init task: position and locals
    outbound,    \* messages handed to connection.send, in order
    lastRead,    \* what the latest read().await of the cell observed
    closed       \* the connection was torn down, its tasks dropped

vars == <<handshake, state, task, outbound, lastRead, closed>>

(***************************************************************************)
(* Bounds                                                                  *)
(***************************************************************************)
\* number of connection_init messages (tasks) on the connection
NumTasks == 2

Tasks == 1..NumTasks

(***************************************************************************)
(* Header names and values.  A string is a tuple of one-character strings. *)
(***************************************************************************)

\* http::header::name HEADER_CHARS: the byte a name byte is mapped to,
\* "" for a byte that is not allowed in a header name.
HeaderChar(c) ==
    CASE c = "R" -> "r"
      [] c = "A" -> "a"
      [] c \in {"r", "a", "-"} -> c
      [] OTHER -> ""

\* HeaderName::from_bytes(key.as_bytes()): Err for an empty name or a byte
\* outside the table, else the name with every byte mapped (lower-cased).
NameOk(key) == Len(key) > 0 /\ \A i \in 1..Len(key) : HeaderChar(key[i]) # ""
FromBytes(key) == [i \in 1..Len(key) |-> HeaderChar(key[i])]

\* HeaderValue::from_str(&value): every byte is a tab or a visible ASCII
\* byte (>= 32 and not DEL).
ValueByteOk(c) == c \notin {"\n", "\r", "DEL"}
ValueOk(value) == \A i \in 1..Len(value) : ValueByteOk(value[i])

(***************************************************************************)
(* http::HeaderMap: a function from header names to the non-empty sequence *)
(* of that name's values.                                                  *)
(***************************************************************************)
EmptyHeaderMap == <<>>

\* HeaderMap::insert: the name's previous values are all replaced.
Insert(map, name, value) ==
    [n \in (DOMAIN map) \cup {name} |-> IF n = name THEN <<value>> ELSE map[n]]

\* HeaderMap::append: the value is added after the name's existing ones.
Append1(map, name, value) ==
    [n \in (DOMAIN map) \cup {name} |->
        IF n = name
        THEN (IF name \in DOMAIN map THEN Append(map[name], value) ELSE <<value>>)
        ELSE map[n]]

\* HeaderMap::into_iter: (Some(name), first value), then (None, value) for
\* each further value of the same name, name after name.
RECURSIVE IntoIter(_)
IntoIter(map) ==
    IF DOMAIN map = {} THEN <<>>
    ELSE LET n == CHOOSE x \in DOMAIN map : TRUE
             rest == [m \in (DOMAIN map) \ {n} |-> map[m]]
             items == [i \in 1..Len(map[n]) |->
                          [name |-> IF i = 1 THEN n ELSE <<>>,
                           some |-> (i = 1),
                           value |-> map[n][i]]]
         IN  items \o IntoIter(rest)

\* HeaderMap::extend(iter): an item that carries a name replaces all values
\* the map held for it; an item without a name appends to the current entry.
RECURSIVE ExtendFrom(_, _, _)
ExtendFrom(map, items, cur) ==
    IF items = <<>> THEN map
    ELSE LET it == Head(items) IN
         IF it.some
         THEN ExtendFrom(Insert(map, it.name, it.value), Tail(items), it.name)
         ELSE ExtendFrom(Append1(map, cur, it.value), Tail(items), cur)

Extend(map, other) == ExtendFrom(map, IntoIter(other), <<>>)

(***************************************************************************)
(* Inputs                                                                  *)
(***************************************************************************)
\* Option<InitPayload>: None, or Some(payload) with payload.headers a
\* HashMap<String, String>.
None == [some |-> FALSE, headers |-> <<>>]
Some(map) == [some |-> TRUE, headers |-> map]

Role == <<"r">>
RoleUpper == <<"R">>
Auth == <<"a">>
BadName == <<"@">>
BadValue == <<"\n">>

\* the connection_init payloads a client sends
Payloads ==
    { None,
      Some(<<>>),
      Some(Role :> <<"v">>),
      Some(RoleUpper :> <<"v">>),
      Some((Role :> <<"v">>) @@ (RoleUpper :> <<"w">>)),
      Some(Auth :> <<"v">>),
      Some(BadName :> <<"v">>),
      Some((Auth :> <<"v">>) @@ (BadName :> <<"w">>)),
      Some(Role :> BadValue),
      Some((BadName :> <<"v">>) @@ (Role :> BadValue)) }

\* the header maps the upgrade request can have left on the connection
Handshakes ==
    { EmptyHeaderMap,
      Role :> << <<"u">> >>,
      Role :> << <<"u">>, <<"x">> >>,
      Auth :> << <<"t">> >> }

\* what hasura_authn::authenticate can return: an identity or an AuthError
AuthnOutcomes ==
    { [ok |-> TRUE,  identity |-> "alice", err |-> ""],
      [ok |-> TRUE,  identity |-> "bob",   err |-> ""],
      [ok |-> FALSE, identity |-> "",      err |-> "jwt"],
      [ok |-> FALSE, identity |-> "",      err |-> "webhook"] }

\* what authorize_identity can return besides a session: a SessionError
SessionErrors == {"role"}

\* the Session authorize_identity builds from the identity and the headers
Session(identity, headers) == [identity |-> identity, variables |-> headers]
NoSession == [identity |-> "", variables |-> <<>>]

(***************************************************************************)
(* ConnectionInitState                                                     *)
(***************************************************************************)
NotInitialized == [tag |-> "NotInitialized", session |-> NoSession, headers |-> <<>>]
Initialized(session, headers) ==
    [tag |-> "Initialized", session |-> session, headers |-> headers]

(***************************************************************************)
(* parse_headers                                                           *)
(***************************************************************************)
ParseOk(headers) == [ok |-> TRUE, headers |-> headers, err |-> ""]
ParseErr(err) == [ok |-> FALSE, headers |-> <<>>, err |-> err]

\* One iteration of the loop for entry (key, map[key]): the first `?` that
\* fails returns, else the entry is inserted under the parsed name.  The
\* HashMap is visited in an unspecified order, so every order is a result.
RECURSIVE ParseFrom(_, _, _)
ParseFrom(map, headers, rest) ==
    IF rest = {} THEN {ParseOk(headers)}
    ELSE UNION { IF ~NameOk(key) THEN {ParseErr("InvalidHeaderName")}
                 ELSE IF ~ValueOk(map[key]) THEN {ParseErr("InvalidHeaderValue")}
                 ELSE ParseFrom(map, Insert(headers, FromBytes(key), map[key]),
                                rest \ {key})
               : key \in rest }

parse_headersSkipInvalid(map) ==
    ParseFrom(map, EmptyHeaderMap,
              {key \in DOMAIN map : NameOk(key) /\ ValueOk(map[key])})

parse_headers(map) == ParseFrom(map, EmptyHeaderMap, DOMAIN map)

\* every key of the payload is a header name and every value a header value
PayloadValid(payload) ==
    \A key \in DOMAIN payload.headers :
        NameOk(key) /\ ValueOk(payload.headers[key])

(***************************************************************************)
(* initialize                                                              *)
(***************************************************************************)
\* Result<(Session, http::HeaderMap), ConnectionInitError>
Ok(session, headers) ==
    [kind |-> "Ok", detail |-> "", session |-> session, headers |-> headers]
Err(kind, detail) ==
    [kind |-> kind, detail |-> detail, session |-> NoSession, headers |-> <<>>]
NoResult == Err("none", "")

ErrorKinds ==
    {"AlreadyInitialized", "InvalidHeaderName", "InvalidHeaderValue", "Authn", "Session"}

IsAlreadyInitializedNever(init_state) == FALSE

\* match init_state: the Initialized arm returns AlreadyInitialized at once
IsAlreadyInitialized(init_state) == init_state.tag = "Initialized"

PayloadHeadersUnparsed(payload) == {ParseOk(EmptyHeaderMap)}

\* let mut headers = match payload { Some(p) => parse_headers(p.headers)?,
\*                                   None => HeaderMap::new() }
PayloadHeaders(payload) ==
    IF payload.some THEN parse_headers(payload.headers) ELSE {ParseOk(EmptyHeaderMap)}

MergePayloadWins(headers, client_headers) == Extend(client_headers, headers)

MergeHandshakeOnly(headers, client_headers) == client_headers

\* headers.extend(client_headers.clone())
Merge(headers, client_headers) == Extend(headers, client_headers)

(***************************************************************************)
(* handle_connection_init                                                  *)
(***************************************************************************)
ConnectionAck == [type |-> "connection_ack", detail |-> ""]
TooManyInitRequests == [type |-> "too_many_init_requests", detail |-> ""]
Forbidden == [type |-> "forbidden", detail |-> ""]

ReplyAckAlways(result) == ConnectionAck

ReplyForbiddenOnError(result) ==
    IF result.kind = "Ok" THEN ConnectionAck ELSE Forbidden

ReplyAuthnAsTooMany(result) ==
    CASE result.kind = "Ok" -> ConnectionAck
      [] result.kind \in {"AlreadyInitialized", "Authn"} -> TooManyInitRequests
      [] OTHER -> Forbidden

ReplyWithCause(result) ==
    CASE result.kind = "Ok" -> ConnectionAck
      [] result.kind = "AlreadyInitialized" -> TooManyInitRequests
      [] OTHER -> [type |-> "forbidden", detail |-> result.kind]

\* the message of each match arm
Reply(result) ==
    CASE result.kind = "Ok" -> ConnectionAck
      [] result.kind = "AlreadyInitialized" -> TooManyInitRequests
      [] OTHER -> Forbidden

NextStateResetOnError(cur, result) ==
    IF result.kind = "Ok" THEN Initialized(result.session, result.headers)
    ELSE NotInitialized

NextStateStoresHandshake(cur, result) ==
    IF result.kind = "Ok" THEN Initialized(result.session, handshake) ELSE cur

NextStateLockedOnError(cur, result) ==
    IF result.kind = "AlreadyInitialized" THEN cur
    ELSE Initialized(result.session, result.headers)

\* the match arms' effect on *state: only the Ok arm assigns it
NextState(cur, result) ==
    IF result.kind = "Ok" THEN Initialized(result.session, result.headers) ELSE cur

HoldsGuardNotAcrossAwait(pc) == pc \in {"send", "release"}

HoldsGuardUntilAssigned(pc) == pc \in {"authn"}

HoldsGuardLeakedOnDrop(pc) == pc \in {"authn", "send", "release", "cancelled"}

HoldsGuardKept(pc) == pc \in {"authn", "send", "release", "done"}

\* `state`, the write guard, lives from its acquisition to the end of the
\* async block: across initialize, its awaits, and the send.
HoldsGuard(pc) == pc \in {"authn", "send", "release"}

Holders == {t \in Tasks : HoldsGuard(task[t].pc)}
InFlight == {t \in Tasks : task[t].pc \in {"wait", "authn", "send", "release"}}

IdleTask ==
    [pc |-> "idle", payload |-> None, pvalid |-> TRUE, startTag |-> "", with |-> {},
     before |-> NotInitialized, parsed |-> 0, merged |-> 0,
     authnCalls |-> 0, authzCalls |-> 0, headers |-> EmptyHeaderMap,
     identity |-> "", result |-> NoResult, wrote |-> 0, sent |-> <<>>,
     droppedAt |-> ""]

Init ==
    /\ handshake \in Handshakes
    /\ state = NotInitialized
    /\ task = [t \in Tasks |-> IdleTask]
    /\ outbound = <<>>
    /\ lastRead = [state |-> NotInitialized, acks |-> 0]
    /\ closed = FALSE

\* The locals of the async block that are dropped when the task ends or is
\* dropped: payload, headers, identity and the result's contents.
DropLocals(rec) ==
    [rec EXCEPT !.payload = None, !.headers = EmptyHeaderMap, !.identity = "",
                !.result = Err(rec.result.kind, "")]

\* A connection_init message arrives: handle_connection_init(connection,
\* payload) is called and waits on protocol_init_state.write().  Task t
\* handles the t-th message of the connection.
Start(t, payload) ==
    /\ ~closed
    /\ task[t].pc = "idle"
    /\ \A u \in Tasks : u < t => task[u].pc # "idle"
    /\ task' = [u \in Tasks |->
                  IF u = t
                  THEN [task[t] EXCEPT !.pc = "wait", !.payload = payload,
                                       !.pvalid = PayloadValid(payload),
                                       !.startTag = state.tag, !.with = InFlight]
                  ELSE IF u \in InFlight
                  THEN [task[u] EXCEPT !.with = @ \cup {t}]
                  ELSE task[u]]
    /\ UNCHANGED <<handshake, state, outbound, lastRead, closed>>

\* The match arm of handle_connection_init taken for `result`, up to its
\* send().await: the Ok arm assigns *state first.
Arm(t, rec, result) ==
    /\ state' = NextState(state, result)
    /\ task' = [task EXCEPT ![t] =
                  [rec EXCEPT !.pc = "send", !.result = result,
                              !.wrote = IF state' # state THEN 1 ELSE 0]]

\* write().await returns; initialize finds the connection Initialized.
BeginAlready(t) ==
    /\ ~closed
    /\ task[t].pc = "wait"
    /\ Holders = {}
    /\ IsAlreadyInitialized(state)
    /\ Arm(t, [task[t] EXCEPT !.before = state], Err("AlreadyInitialized", ""))
    /\ UNCHANGED <<handshake, outbound, lastRead, closed>>

\* write().await returns; parse_headers fails and `?` returns the error.
BeginParseErr(t) ==
    /\ ~closed
    /\ task[t].pc = "wait"
    /\ Holders = {}
    /\ ~IsAlreadyInitialized(state)
    /\ \E r \in PayloadHeaders(task[t].payload) :
          /\ ~r.ok
          /\ Arm(t, [task[t] EXCEPT !.before = state, !.parsed = 1], Err(r.err, ""))
    /\ UNCHANGED <<handshake, outbound, lastRead, closed>>

\* write().await returns; the payload parses, the handshake headers are
\* merged in and authenticate(&headers, ..) is awaited.
BeginAuthn(t) ==
    /\ ~closed
    /\ task[t].pc = "wait"
    /\ Holders = {}
    /\ ~IsAlreadyInitialized(state)
    /\ \E r \in PayloadHeaders(task[t].payload) :
          /\ r.ok
          /\ task' = [task EXCEPT ![t] =
                        [@ EXCEPT !.pc = "authn", !.before = state,
                                  !.parsed = IF task[t].payload.some THEN 1 ELSE 0,
                                  !.merged = 1,
                                  !.headers = Merge(r.headers, handshake),
                                  !.authnCalls = 1]]
    /\ UNCHANGED <<handshake, state, outbound, lastRead, closed>>

\* authenticate returns an AuthError: `?` converts it to Authn.
AuthnErr(t) ==
    /\ ~closed
    /\ task[t].pc = "authn"
    /\ \E a \in AuthnOutcomes :
          /\ ~a.ok
          /\ Arm(t, task[t], Err("Authn", a.err))
    /\ UNCHANGED <<handshake, outbound, lastRead, closed>>

\* authenticate returns an identity; authorize_identity(&identity, &headers)
\* returns a SessionError: `?` converts it to Session.
AuthzErr(t) ==
    /\ ~closed
    /\ task[t].pc = "authn"
    /\ \E a \in AuthnOutcomes, e \in SessionErrors :
          /\ a.ok
          /\ Arm(t, [task[t] EXCEPT !.identity = a.identity, !.authzCalls = 1],
                 Err("Session", e))
    /\ UNCHANGED <<handshake, outbound, lastRead, closed>>

\* authenticate and authorize_identity both succeed: initialize returns
\* Ok((session, headers)).
InitOk(t) ==
    /\ ~closed
    /\ task[t].pc = "authn"
    /\ \E a \in AuthnOutcomes :
          /\ a.ok
          /\ Arm(t, [task[t] EXCEPT !.identity = a.identity, !.authzCalls = 1],
                 Ok(Session(a.identity, task[t].headers), task[t].headers))
    /\ UNCHANGED <<handshake, outbound, lastRead, closed>>

\* connection.send(message).await of the arm taken
Send(t) ==
    /\ ~closed
    /\ task[t].pc = "send"
    /\ outbound' = Append(outbound, Reply(task[t].result))
    /\ task' = [task EXCEPT ![t] =
                  [@ EXCEPT !.pc = "release", !.sent = Append(@, Reply(task[t].result))]]
    /\ UNCHANGED <<handshake, state, lastRead, closed>>

\* the async block ends and the guard is dropped
Release(t) ==
    /\ ~closed
    /\ task[t].pc = "release"
    /\ task' = [task EXCEPT ![t] = [DropLocals(@) EXCEPT !.pc = "done"]]
    /\ UNCHANGED <<handshake, state, outbound, lastRead, closed>>

Acks(msgs) == Cardinality({i \in 1..Len(msgs) : msgs[i] = ConnectionAck})

\* Another operation of the connection takes protocol_init_state.read():
\* it gets the cell when no write guard is held.
Read ==
    /\ ~closed
    /\ Holders = {}
    /\ lastRead' = [state |-> state, acks |-> Acks(outbound)]
    /\ UNCHANGED <<handshake, state, task, outbound, closed>>

\* The connection is torn down: its tasks are dropped where they are
\* suspended, and a dropped task's guard with it.
Teardown ==
    /\ ~closed
    /\ closed' = TRUE
    /\ task' = [t \in Tasks |->
                  IF t \in InFlight
                  THEN [DropLocals(task[t]) EXCEPT !.pc = "cancelled",
                                                   !.droppedAt = task[t].pc]
                  ELSE task[t]]
    /\ UNCHANGED <<handshake, state, outbound, lastRead>>

Next ==
    \/ \E t \in Tasks, payload \in Payloads : Start(t, payload)
    \/ \E t \in Tasks : BeginAlready(t)
    \/ \E t \in Tasks : BeginParseErr(t)
    \/ \E t \in Tasks : BeginAuthn(t)
    \/ \E t \in Tasks : AuthnErr(t)
    \/ \E t \in Tasks : AuthzErr(t)
    \/ \E t \in Tasks : InitOk(t)
    \/ \E t \in Tasks : Send(t)
    \/ \E t \in Tasks : Release(t)
    \/ Read
    \/ Teardown

Spec == Init /\ [][Next]_vars

\* The step task t takes next when it is scheduled: write().await returns
\* when the guard is free, authenticate returns, send returns, the block
\* ends.
Step(t) ==
    \/ BeginAlready(t)
    \/ BeginParseErr(t)
    \/ BeginAuthn(t)
    \/ AuthnErr(t)
    \/ AuthzErr(t)
    \/ InitOk(t)
    \/ Send(t)
    \/ Release(t)

\* a connection that stays open
NextOpen ==
    \/ \E t \in Tasks, payload \in Payloads : Start(t, payload)
    \/ \E t \in Tasks : Step(t)
    \/ Read

\* Every started task is scheduled again, and its authenticate call and its
\* send return.
LiveSpec == Init /\ [][NextOpen]_vars /\ \A t \in Tasks : WF_vars(Step(t))

(***************************************************************************)
(* Properties                                                              *)
(***************************************************************************)
Range(seq) == {seq[i] : i \in 1..Len(seq)}
Finished(t) == task[t].pc \in {"release", "done"}

\* C1: protocol_init_state changes only from NotInitialized to Initialized;
\* hence at most once, and an Initialized state is never reverted and its
\* session and headers are never replaced.
C1_ChangesOnlyOnce ==
    [][state' # state =>
          /\ state.tag = "NotInitialized"
          /\ state'.tag = "Initialized"]_vars

\* an initialized connection on which a later connection_init was rejected
C1_Witness ==
    /\ state.tag = "Initialized"
    /\ \E t, u \in Tasks :
          /\ task[t].pc = "done" /\ task[t].wrote = 1
          /\ task[u].pc = "done" /\ task[u].before = state
          /\ task[u].result.kind = "AlreadyInitialized"

\* C2: at most one ConnectionAck is ever sent; a task sends ConnectionAck
\* only if it turned the state to Initialized, and a task that turned the
\* state and has sent its message has sent exactly one ConnectionAck.
C2_OneAckPerTransition ==
    /\ Acks(outbound) <= 1
    /\ Acks(outbound) = Cardinality({t \in Tasks : ConnectionAck \in Range(task[t].sent)})
    /\ \A t \in Tasks :
          /\ ConnectionAck \in Range(task[t].sent) => task[t].wrote = 1
          /\ Finished(t) => (task[t].wrote = 1 <=> task[t].sent = <<ConnectionAck>>)

\* one task was acknowledged and another completed without an acknowledgment
C2_Witness ==
    /\ Acks(outbound) = 1
    /\ \E t, u \in Tasks :
          /\ task[t].pc = "done" /\ task[t].sent = <<ConnectionAck>>
          /\ task[u].pc = "done" /\ task[u].sent # <<ConnectionAck>>

\* the parsed names of the payload that the handshake headers also carry
Conflicts(payload) ==
    {FromBytes(key) : key \in {k \in DOMAIN payload.headers : NameOk(k)}}
        \cap DOMAIN handshake

\* C3: for every name in both the parsed payload and the handshake headers,
\* the headers given to authenticate and authorize, and the headers stored
\* in Initialized, hold the handshake values of that name.
C3_HandshakeWins ==
    \A t \in Tasks :
        (HoldsGuard(task[t].pc) /\ task[t].merged = 1) =>
            \A name \in Conflicts(task[t].payload) :
                /\ name \in DOMAIN task[t].headers
                /\ task[t].headers[name] = handshake[name]
                /\ task[t].wrote = 1 =>
                      /\ name \in DOMAIN state.headers
                      /\ state.headers[name] = handshake[name]

\* a payload whose key R is normalised to the handshake's name r was merged
\* and stored
C3_Witness ==
    \E t \in Tasks :
        /\ task[t].pc = "release" /\ task[t].wrote = 1
        /\ RoleUpper \in DOMAIN task[t].payload.headers
        /\ Role \in Conflicts(task[t].payload)
        /\ Len(handshake[Role]) = 2

\* C4: two connection_init messages with valid payloads and credentials
\* handled concurrently on a NotInitialized connection, no other attempt
\* having initialized it: exactly one of the two assigns the state and
\* sends ConnectionAck, the other gets AlreadyInitialized and sends
\* too-many-init-requests; one acknowledgment in all, and the stored
\* session is the one built from the stored headers.
C4_ConcurrentInits ==
    \A a, b \in Tasks :
        ( /\ a # b
          /\ task[a].pc = "done" /\ task[b].pc = "done"
          /\ b \in task[a].with
          /\ task[a].startTag = "NotInitialized" /\ task[b].startTag = "NotInitialized"
          /\ task[a].pvalid /\ task[b].pvalid
          /\ task[a].result.kind \notin {"Authn", "Session"}
          /\ task[b].result.kind \notin {"Authn", "Session"}
          /\ \A c \in Tasks \ {a, b} : task[c].wrote = 0 )
        => /\ \E w \in {a, b} :
                LET l == CHOOSE x \in {a, b} : x # w IN
                /\ task[w].result.kind = "Ok" /\ task[w].wrote = 1
                /\ task[w].sent = <<ConnectionAck>>
                /\ task[l].result.kind = "AlreadyInitialized" /\ task[l].wrote = 0
                /\ task[l].sent = <<TooManyInitRequests>>
                /\ task[l].authnCalls = 0
           /\ Acks(outbound) = 1
           /\ state.tag = "Initialized"
           /\ state.session.variables = state.headers

\* the second message arrived while the first held the guard, and both
\* handlers have completed
C4_Witness ==
    \E a, b \in Tasks :
        /\ a # b
        /\ task[a].pc = "done" /\ task[b].pc = "done"
        /\ b \in task[a].with
        /\ task[a].pvalid /\ task[b].pvalid
        /\ task[a].result.kind = "Ok"
        /\ task[b].result.kind = "AlreadyInitialized"
        /\ outbound = <<ConnectionAck, TooManyInitRequests>>

\* C5: an attempt that finds the connection Initialized gets
\* AlreadyInitialized and sends too-many-init-requests, after no
\* parse_headers, no merge, no authenticate and no authorize call.
C5_RejectedCheaply ==
    \A t \in Tasks :
        (task[t].pc \in {"authn", "send", "release", "done"}
            /\ task[t].before.tag = "Initialized") =>
            /\ task[t].result.kind = "AlreadyInitialized"
            /\ task[t].parsed = 0 /\ task[t].merged = 0
            /\ task[t].authnCalls = 0 /\ task[t].authzCalls = 0
            /\ Finished(t) => task[t].sent = <<TooManyInitRequests>>

\* a connection_init with an invalid payload was rejected on an Initialized
\* connection
C5_Witness ==
    \E t \in Tasks :
        /\ task[t].pc = "release"
        /\ task[t].before.tag = "Initialized"
        /\ ~task[t].pvalid
        /\ task[t].sent = <<TooManyInitRequests>>

\* C6: while a failed attempt still holds the guard the state is the one it
\* found, and a rejected attempt's Initialized state stays as it found it.
C6_FailureLeavesState ==
    \A t \in Tasks :
        task[t].result.kind \in ErrorKinds =>
            /\ task[t].pc \in {"send", "release"} => state = task[t].before
            /\ (task[t].pc = "done" /\ task[t].before.tag = "Initialized")
                  => state = task[t].before
            /\ task[t].wrote = 0

\* authorization failed on a NotInitialized connection
C6_Witness ==
    \E t \in Tasks :
        /\ task[t].pc = "release"
        /\ task[t].result.kind = "Session"
        /\ task[t].before = NotInitialized
        /\ state = NotInitialized

\* C7 as stated: an attempt whose payload has an invalid header name or
\* value is answered with forbidden and calls neither authenticate nor
\* authorize.
C7_InvalidPayloadForbidden ==
    \A t \in Tasks :
        (~task[t].pvalid /\ task[t].pc \in {"authn", "send", "release", "done"}) =>
            /\ task[t].authnCalls = 0 /\ task[t].authzCalls = 0
            /\ Finished(t) => task[t].sent = <<Forbidden>>

\* C7, amended: such an attempt calls neither authenticate nor authorize;
\* on a NotInitialized connection it fails with InvalidHeaderName or
\* InvalidHeaderValue and is answered with forbidden, on an Initialized
\* connection it is answered with too-many-init-requests.
C7_InvalidPayloadNoAuth ==
    \A t \in Tasks :
        (~task[t].pvalid /\ task[t].pc \in {"authn", "send", "release", "done"}) =>
            /\ task[t].authnCalls = 0 /\ task[t].authzCalls = 0
            /\ task[t].before.tag = "NotInitialized" =>
                  /\ task[t].result.kind \in {"InvalidHeaderName", "InvalidHeaderValue"}
                  /\ Finished(t) => task[t].sent = <<Forbidden>>
            /\ task[t].before.tag = "Initialized" =>
                  /\ task[t].result.kind = "AlreadyInitialized"
                  /\ Finished(t) => task[t].sent = <<TooManyInitRequests>>

\* a payload with a valid and an invalid entry was refused on a
\* NotInitialized connection whose handshake carries headers
C7_Witness ==
    \E t \in Tasks :
        /\ task[t].pc = "release"
        /\ task[t].before.tag = "NotInitialized"
        /\ DOMAIN task[t].payload.headers = {Auth, BadName}
        /\ handshake # EmptyHeaderMap
        /\ task[t].sent = <<Forbidden>>

\* C8: a handler that has sent has sent exactly one message, the one its
\* outcome maps to; before its send it has sent none; every message on the
\* connection is one of these.
C8_OneMessagePerOutcome ==
    /\ \A t \in Tasks :
          /\ Finished(t) =>
                /\ Len(task[t].sent) = 1
                /\ task[t].result.kind \in ErrorKinds \cup {"Ok"}
                /\ task[t].result.kind = "Ok" => task[t].sent[1] = ConnectionAck
                /\ task[t].result.kind = "AlreadyInitialized"
                      => task[t].sent[1] = TooManyInitRequests
                /\ task[t].result.kind \in
                      {"InvalidHeaderName", "InvalidHeaderValue", "Authn", "Session"}
                      => task[t].sent[1] = Forbidden
          /\ task[t].pc \in {"idle", "wait", "authn", "send"} => task[t].sent = <<>>
          /\ Len(task[t].sent) <= 1
    /\ Len(outbound) = Cardinality({t \in Tasks : task[t].sent # <<>>})

\* an authentication failure and a rejected duplicate were both answered
C8_Witness ==
    \E t, u \in Tasks :
        /\ task[t].pc = "done" /\ task[t].result.kind = "Authn"
        /\ task[u].pc = "done" /\ task[u].result.kind \in {"Ok", "InvalidHeaderValue"}
        /\ Len(outbound) = 2

ForbiddenCauses == {"InvalidHeaderName", "InvalidHeaderValue", "Authn", "Session"}

\* C9: any two attempts on a NotInitialized connection that failed, for
\* whatever cause and error detail, sent the same single message, the
\* forbidden message without detail, and left the same state,
\* NotInitialized.
C9_CauseNotObservable ==
    \A a, b \in Tasks :
        ( /\ Finished(a) /\ Finished(b)
          /\ task[a].before.tag = "NotInitialized"
          /\ task[b].before.tag = "NotInitialized"
          /\ task[a].result.kind \in ForbiddenCauses
          /\ task[b].result.kind \in ForbiddenCauses )
        => /\ task[a].sent = task[b].sent
           /\ task[a].sent = <<Forbidden>>
           /\ task[a].pc = "release" => state = NotInitialized

\* two attempts failed for different causes
C9_Witness ==
    \E a, b \in Tasks :
        /\ task[a].pc = "done" /\ task[a].result.kind = "InvalidHeaderName"
        /\ task[b].pc = "release" /\ task[b].result.kind = "Authn"
        /\ task[b].result.detail = "webhook"

\* C10: a reader of the cell that observed Initialized did so after the
\* ConnectionAck was sent, and what it observed is the whole committed
\* state: the session of an identity with the headers it was built from.
C10_ReadersAfterAck ==
    /\ lastRead.state.tag = "Initialized" =>
          /\ lastRead.acks = 1
          /\ lastRead.state = state
          /\ lastRead.state.session.identity # ""
          /\ lastRead.state.session.variables = lastRead.state.headers
    /\ lastRead.state.tag = "NotInitialized" => lastRead.state = NotInitialized

\* a reader observed the Initialized state
C10_Witness ==
    /\ lastRead.state.tag = "Initialized"
    /\ lastRead.state.headers # EmptyHeaderMap

\* C11: at most one task is between the acquisition of the write guard and
\* the end of its block (in authenticate, at its send, or after it), and
\* such a task holds the guard: no other task enters initialize meanwhile.
C11_OneAttemptInside ==
    /\ Cardinality({t \in Tasks : task[t].pc \in {"authn", "send", "release"}}) <= 1
    /\ \A t \in Tasks :
          task[t].pc \in {"authn", "send", "release"} =>
              /\ Holders = {t}
              /\ \A u \in Tasks \ {t} :
                    /\ ~ENABLED BeginAlready(u)
                    /\ ~ENABLED BeginParseErr(u)
                    /\ ~ENABLED BeginAuthn(u)

\* one task is suspended in authenticate while another waits for the guard
C11_Witness ==
    \E t, u \in Tasks :
        /\ task[t].pc = "authn"
        /\ task[u].pc = "wait"
        /\ task[u].pvalid

\* C12 as stated: a connection_init that arrived while another attempt was
\* in flight and was rejected as AlreadyInitialized has made its own
\* authenticate call.
C12_DuplicateAuthenticates ==
    \A t \in Tasks :
        (Finished(t) /\ task[t].with # {}
            /\ task[t].result.kind = "AlreadyInitialized") =>
            task[t].authnCalls = 1

\* C12, amended: a connection_init that arrived while another attempt was
\* in flight calls authenticate only if it found the state NotInitialized
\* when it got the guard (and then it is not rejected as AlreadyInitialized);
\* if it found Initialized it is rejected with no authenticate call.
C12_DuplicateWaitsThenRejected ==
    \A t \in Tasks :
        (task[t].pc \in {"authn", "send", "release", "done"} /\ task[t].with # {}) =>
            /\ task[t].authnCalls = 1 =>
                  /\ task[t].before.tag = "NotInitialized"
                  /\ task[t].result.kind # "AlreadyInitialized"
            /\ task[t].before.tag = "Initialized" =>
                  /\ task[t].result.kind = "AlreadyInitialized"
                  /\ task[t].authnCalls = 0
            /\ (task[t].before.tag = "NotInitialized" /\ task[t].pvalid)
                  => task[t].authnCalls = 1

\* the duplicate arrived while the first attempt was in flight and was
\* rejected after the first attempt succeeded
C12_Witness ==
    \E t, u \in Tasks :
        /\ u \in task[t].with /\ u < t
        /\ task[u].result.kind = "Ok"
        /\ task[t].pc = "release"
        /\ task[t].pvalid
        /\ task[t].result.kind = "AlreadyInitialized"
        /\ task[t].authnCalls = 0

\* the effective headers initialize can build from a payload
EffectiveHeaders(payload) ==
    {Merge(r.headers, handshake) : r \in {x \in PayloadHeaders(payload) : x.ok}}

\* C13: the effective headers an attempt built are the only ones its
\* payload and the handshake headers can give: every run of parse_headers
\* and the merge on the same inputs yields the same headers.
C13_EffectiveHeadersDetermined ==
    \A t \in Tasks :
        (HoldsGuard(task[t].pc) /\ task[t].merged = 1) =>
            EffectiveHeaders(task[t].payload) = {task[t].headers}

\* the parsed names of a payload
ParsedNames(payload) ==
    {FromBytes(key) : key \in {k \in DOMAIN payload.headers : NameOk(k)}}

\* C14: the effective headers have exactly the parsed payload names and the
\* handshake names; a handshake name has its handshake values, a name only
\* in the payload has the value of a payload entry of that name; with no
\* payload they are the handshake headers.
C14_ReferenceMerge ==
    \A t \in Tasks :
        (HoldsGuard(task[t].pc) /\ task[t].merged = 1) =>
            LET p == task[t].payload
                h == task[t].headers IN
            /\ DOMAIN h = ParsedNames(p) \cup DOMAIN handshake
            /\ \A n \in DOMAIN handshake : h[n] = handshake[n]
            /\ \A n \in ParsedNames(p) \ DOMAIN handshake :
                  \E key \in DOMAIN p.headers :
                      /\ FromBytes(key) = n
                      /\ h[n] = <<p.headers[key]>>
            /\ ~p.some => h = handshake

\* a payload-only header was merged with a multi-valued handshake header
C14_Witness ==
    \E t \in Tasks :
        /\ task[t].pc = "authn"
        /\ DOMAIN task[t].payload.headers = {Auth}
        /\ DOMAIN handshake = {Role}
        /\ Len(handshake[Role]) = 2
        /\ DOMAIN task[t].headers = {Auth, Role}

\* C15: in one attempt authenticate is called at most once, after the merge
\* and only when every payload header parsed; authorize is called at most
\* once, only with the identity authenticate returned; a parse failure
\* precedes the merge, and after an authentication failure authorize is not
\* called.
C15_StepOrder ==
    \A t \in Tasks :
        /\ task[t].parsed <= 1 /\ task[t].merged <= 1
        /\ task[t].authnCalls <= 1 /\ task[t].authzCalls <= 1
        /\ task[t].merged = 1 => task[t].pvalid
        /\ (task[t].merged = 1 /\ HoldsGuard(task[t].pc) /\ task[t].payload.some)
              => task[t].parsed = 1
        /\ task[t].authnCalls = 1 => (task[t].merged = 1 /\ task[t].pvalid)
        /\ task[t].authzCalls = 1 => task[t].authnCalls = 1
        /\ (task[t].authzCalls = 1 /\ task[t].pc \in {"send", "release"})
              => task[t].identity \in {a.identity : a \in {x \in AuthnOutcomes : x.ok}}
        /\ task[t].result.kind \in {"InvalidHeaderName", "InvalidHeaderValue"}
              => (task[t].parsed = 1 /\ task[t].merged = 0 /\ task[t].authnCalls = 0)
        /\ task[t].result.kind = "Authn"
              => (task[t].authnCalls = 1 /\ task[t].authzCalls = 0)
        /\ task[t].result.kind \in {"Session", "Ok"}
              => (task[t].authnCalls = 1 /\ task[t].authzCalls = 1)

\* an attempt with a parsed payload was authenticated and then refused by
\* authorize
C15_Witness ==
    \E t \in Tasks :
        /\ task[t].pc = "release"
        /\ task[t].payload.some /\ task[t].payload.headers # <<>>
        /\ task[t].result.kind = "Session"
        /\ task[t].identity = "bob"

\* C16: the Initialized state was assigned by exactly one attempt, which
\* called authenticate and authorize once each; its headers are the stored
\* headers and the session built from its identity and those headers is the
\* stored session.
C16_StoredIsAuthenticated ==
    state.tag = "Initialized" =>
        /\ Cardinality({t \in Tasks : task[t].result.kind = "Ok"}) = 1
        /\ \A t \in Tasks :
              task[t].result.kind = "Ok" =>
                  /\ task[t].wrote = 1
                  /\ task[t].merged = 1
                  /\ task[t].authnCalls = 1 /\ task[t].authzCalls = 1
                  /\ task[t].pc \in {"send", "release"} =>
                        /\ state.headers = task[t].headers
                        /\ state.session = Session(task[t].identity, task[t].headers)
        /\ state.session.variables = state.headers
        /\ state.session.identity # ""

\* the stored headers hold a payload header next to the handshake's
C16_Witness ==
    \E t \in Tasks :
        /\ state.tag = "Initialized"
        /\ task[t].pc = "release" /\ task[t].wrote = 1
        /\ Auth \in DOMAIN task[t].payload.headers
        /\ DOMAIN state.headers = {Auth, Role}

\* C17: an attempt finds the connection NotInitialized unless another
\* attempt succeeded, however many failed before it; and an attempt that
\* finds it NotInitialized with a valid payload, and that neither
\* authenticate nor authorize refuses, calls both, assigns Initialized and
\* sends ConnectionAck.
C17_NoLockout ==
    \A t \in Tasks :
        /\ (task[t].pc \in {"authn", "send", "release", "done"}
              /\ \A u \in Tasks \ {t} : task[u].result.kind # "Ok")
              => task[t].before = NotInitialized
        /\ (Finished(t) /\ task[t].before = NotInitialized /\ task[t].pvalid
              /\ task[t].result.kind \notin {"Authn", "Session"})
              => /\ task[t].result.kind = "Ok"
                 /\ task[t].authnCalls = 1 /\ task[t].authzCalls = 1
                 /\ task[t].wrote = 1
                 /\ task[t].sent = <<ConnectionAck>>
                 /\ state.tag = "Initialized"

\* a connection_init succeeded after an earlier one was answered forbidden
C17_Witness ==
    \E t, u \in Tasks :
        /\ u < t
        /\ task[u].pc = "done" /\ task[u].sent = <<Forbidden>>
        /\ u \notin task[t].with
        /\ task[t].pc = "done" /\ task[t].sent = <<ConnectionAck>>
        /\ state.tag = "Initialized"

\* C18: after a teardown that dropped a task suspended in authenticate, the
\* state is NotInitialized as the task found it, the task has sent nothing
\* and has not called authorize, and no write guard is held.
C18_DroppedInAuthenticate ==
    \A t \in Tasks :
        (task[t].pc = "cancelled" /\ task[t].droppedAt = "authn") =>
            /\ state = NotInitialized
            /\ task[t].before = NotInitialized
            /\ task[t].wrote = 0
            /\ task[t].sent = <<>>
            /\ task[t].authnCalls = 1 /\ task[t].authzCalls = 0
            /\ Holders = {}

\* the teardown dropped one task in authenticate and one waiting for the
\* guard
C18_Witness ==
    \E t, u \in Tasks :
        /\ closed
        /\ task[t].droppedAt = "authn"
        /\ task[u].droppedAt = "wait"

\* C19: on a connection that stays open, every handler that starts ends
\* with the guard released and exactly one message sent.
C19_EveryHandlerCompletes ==
    \A t \in Tasks :
        (task[t].pc = "wait") ~> (task[t].pc = "done" /\ Len(task[t].sent) = 1)

\* two handlers ran concurrently and both completed
C19_Witness ==
    \E t, u \in Tasks :
        /\ t # u /\ u \in task[t].with
        /\ task[t].pc = "done" /\ Len(task[t].sent) = 1
        /\ task[u].pc = "done" /\ Len(task[u].sent) = 1
        /\ Holders = {}

====
